---------------------------- MODULE Spec2Model ----------------------------
(***************************************************************************)
(* Model of the password generation core of assets/password-generator.js:  *)
(* generatePasswords, validateConstraints, secureRandom,                   *)
(* filterSimilarChars, generateSinglePassword,                             *)
(* generateNoDuplicatePassword, getValidChar and isValidChar.              *)
(*                                                                         *)
(* A JavaScript string is a sequence of one-character strings.  A random   *)
(* draw is a choice over the values of the 32-bit random word.             *)
(***************************************************************************)
EXTENDS Integers, Sequences, FiniteSets, TLC

(***************************************************************************)
(* Bounds of the model.                                                    *)
(***************************************************************************)
\* largest password length of the settings enumerated by Init
MaxLen == 3
\* largest amount of passwords of a batch
MaxAmount == 2
\* number of leading characters of each category string that the model keeps
NumbersLen == 3
LowercaseLen == 1
UppercaseLen == 1
DefaultSymbolsLen == 2
\* the random word of secureRandom ranges over 0..MaxWord
MaxWord == 9
\* password length of the long, small-alphabet settings (symbol quota above 1)
LongLen == 11
\* number of copy icons of the password list
MaxIcons == 2

(***************************************************************************)
(* Characters and strings.                                                 *)
(***************************************************************************)
\* the character of code 96, which the lexer of TLA+ cannot read in a string
Grave == "grave"

\* the printable ASCII characters, in code order, from code 32
Ascii ==
  << " ", "!", "\"", "#", "$", "%", "&", "'", "(", ")", "*", "+", ",", "-",
     ".", "/", "0", "1", "2", "3", "4", "5", "6", "7", "8", "9", ":", ";",
     "<", "=", ">", "?", "@", "A", "B", "C", "D", "E", "F", "G", "H", "I",
     "J", "K", "L", "M", "N", "O", "P", "Q", "R", "S", "T", "U", "V", "W",
     "X", "Y", "Z", "[", "\\", "]", "^", "_", Grave, "a", "b", "c", "d", "e",
     "f", "g", "h", "i", "j", "k", "l", "m", "n", "o", "p", "q", "r", "s",
     "t", "u", "v", "w", "x", "y", "z", "{", "|", "}", "~" >>

\* String.prototype.charCodeAt(0) of a one-character string
charCodeAt(c) == 31 + (CHOOSE n \in 1..Len(Ascii) : Ascii[n] = c)

\* Math.abs
Abs(x) == IF x < 0 THEN -x ELSE x

\* the characters of a string, as a set (new Set([...s]))
SetOf(s) == { s[n] : n \in 1..Len(s) }

\* the first n characters of a string
Prefix(s, n) == SubSeq(s, 1, IF n < Len(s) THEN n ELSE Len(s))

\* the string s without the characters of the set drop, order kept
Without(s, drop) == SelectSeq(s, LAMBDA c : c \notin drop)

\* the value null
Null == "null"

(***************************************************************************)
(* The character categories of generatePasswords.                          *)
(***************************************************************************)
numbersSet == Prefix(SubSeq(Ascii, 17, 26), NumbersLen)
lowercaseSet == Prefix(SubSeq(Ascii, 66, 91), LowercaseLen)
uppercaseSet == Prefix(SubSeq(Ascii, 34, 59), UppercaseLen)
defaultSymbols ==
  Prefix(<< "!", "#", "%", "*", "+", "-", "=", "?", "@", "^", "_", "~" >>,
         DefaultSymbolsLen)

\* the characters matched by the regular expression /[0-9]/
DigitChars == SetOf(SubSeq(Ascii, 17, 26))

similarChars == << "i", "I", "l", "1", "o", "O", "0" >>

\* the value Infinity of maxSymbols when no symbol set is in use
Infinity == 2147483647

\* the number of quick attempts of getValidChar
attemptsLimit == 5

(***************************************************************************)
(* Pure functions of the generator.                                        *)
(***************************************************************************)
\* secureRandom that reduces the random word modulo max + 1
secureRandom_Inclusive(word, max) == word % (max + 1)

\* secureRandom(max), for the value word of the random word
secureRandom(word, max) == word % max

\* the indices secureRandom(max) can return
RandomWords == 0..MaxWord

\* symbolsSet of generatePasswords
symbolsSetOf(s) ==
  IF s.includeSymbols
    THEN IF Len(s.customSymbols) > 0 THEN s.customSymbols ELSE defaultSymbols
    ELSE << >>

\* charset of generatePasswords where the uppercase option adds the lowercase
\* letters
charsetOf_WrongCategory(s) ==
  (IF s.includeNumbers THEN numbersSet ELSE << >>)
    \o (IF s.includeLowercase THEN lowercaseSet ELSE << >>)
    \o (IF s.includeUppercase THEN lowercaseSet ELSE << >>)
    \o (IF s.includeSymbols THEN symbolsSetOf(s) ELSE << >>)

\* charset of generatePasswords
charsetOf(s) ==
  (IF s.includeNumbers THEN numbersSet ELSE << >>)
    \o (IF s.includeLowercase THEN lowercaseSet ELSE << >>)
    \o (IF s.includeUppercase THEN uppercaseSet ELSE << >>)
    \o (IF s.includeSymbols THEN symbolsSetOf(s) ELSE << >>)

\* a first-character pool that drops the default symbols, not the active ones
firstCharPoolOf_DropsDefaultSymbols(s) ==
  LET all == charsetOf(s)
      noNum == IF s.noStartNumber THEN Without(all, DigitChars) ELSE all
  IN  IF s.noStartSymbol /\ symbolsSetOf(s) # << >>
        THEN Without(noNum, SetOf(defaultSymbols))
        ELSE noNum

\* firstCharPool of generatePasswords
firstCharPoolOf(s) ==
  LET all == charsetOf(s)
      noNum == IF s.noStartNumber THEN Without(all, DigitChars) ELSE all
  IN  IF s.noStartSymbol /\ symbolsSetOf(s) # << >>
        THEN Without(noNum, SetOf(symbolsSetOf(s)))
        ELSE noNum

\* the error values shown by showTooltip(message, "error")
NoError == [msg |-> "none", a |-> 0, b |-> 0]
Err(m) == [msg |-> m, a |-> 0, b |-> 0]
ErrEmptyCharset == Err("Select at least one character type.")
ErrNoStart == Err("No valid starting characters available.")
ErrNotEnough(available, required) ==
  [msg |-> "Not enough unique characters", a |-> available, b |-> required]
ErrNoFirstPosition == Err("No valid characters available for the first position.")
ErrSimilarCharset == Err("No characters available after removing similar characters.")
ErrSimilarStart ==
  Err("No valid starting characters available after removing similar characters.")
ErrStartChar == Err("Failed to generate a valid starting character.")
ErrPosition(p) == [msg |-> "Failed to generate character at position", a |-> p, b |-> 0]

\* validateConstraints: the error it throws, or NoError
validateConstraints(length, cs, pool, noDuplicate) ==
  IF noDuplicate /\ Len(cs) < length THEN ErrNotEnough(Len(cs), length)
  ELSE IF Len(pool) = 0 THEN ErrNoFirstPosition
  ELSE NoError

\* filterSimilarChars with a similar set that misses its last character
filterSimilarChars_MissesLast(cs, similar) ==
  IF similar = << >> THEN cs
  ELSE Without(cs, SetOf(SubSeq(similar, 1, Len(similar) - 1)))

filterSimilarChars(cs, similar) ==
  IF similar = << >> THEN cs ELSE Without(cs, SetOf(similar))

\* Math.ceil(length * 0.1)
CeilTenth(length) == (length + 9) \div 10

\* a symbol quota of the whole length: the factor 0.1 is missing
maxSymbolsOf_WholeLength(length, symSet) ==
  IF symSet # << >> THEN length ELSE Infinity

\* a symbol quota rounded down: Math.floor(length * 0.1)
maxSymbolsOf_Floor(length, symSet) ==
  IF symSet # << >> THEN length \div 10 ELSE Infinity

\* maxSymbols of generateSinglePassword
maxSymbolsOf(length, symSet) ==
  IF symSet # << >> THEN CeilTenth(length) ELSE Infinity

\* a Set object or null
NullSet == [isNull |-> TRUE, items |-> {}]
NewSet(items) == [isNull |-> FALSE, items |-> items]

\* isValidChar without the duplicate check
isValidChar_NoDuplicateCheck(char, prevChar, used, symSet, symCount, maxSym, noSeq) ==
  IF noSeq /\ prevChar # Null
       /\ Abs(charCodeAt(char) - charCodeAt(prevChar)) = 1 THEN FALSE
  ELSE IF ~symSet.isNull /\ char \in symSet.items /\ symCount >= maxSym
    THEN FALSE
  ELSE TRUE

\* isValidChar with a sequential check that sees ascending pairs only
isValidChar_AscendingOnly(char, prevChar, used, symSet, symCount, maxSym, noSeq) ==
  IF ~used.isNull /\ char \in used.items THEN FALSE
  ELSE IF noSeq /\ prevChar # Null
            /\ charCodeAt(char) - charCodeAt(prevChar) = 1 THEN FALSE
  ELSE IF ~symSet.isNull /\ char \in symSet.items /\ symCount >= maxSym
    THEN FALSE
  ELSE TRUE

\* isValidChar with a symbol check that lets one symbol too many through
isValidChar_QuotaOffByOne(char, prevChar, used, symSet, symCount, maxSym, noSeq) ==
  IF ~used.isNull /\ char \in used.items THEN FALSE
  ELSE IF noSeq /\ prevChar # Null
            /\ Abs(charCodeAt(char) - charCodeAt(prevChar)) = 1 THEN FALSE
  ELSE IF ~symSet.isNull /\ char \in symSet.items /\ symCount > maxSym
    THEN FALSE
  ELSE TRUE

\* isValidChar with a sequential check that also rejects a code distance of 0
isValidChar_RejectsRepeat(char, prevChar, used, symSet, symCount, maxSym, noSeq) ==
  IF ~used.isNull /\ char \in used.items THEN FALSE
  ELSE IF noSeq /\ prevChar # Null
            /\ Abs(charCodeAt(char) - charCodeAt(prevChar)) <= 1 THEN FALSE
  ELSE IF ~symSet.isNull /\ char \in symSet.items /\ symCount >= maxSym
    THEN FALSE
  ELSE TRUE

isValidChar(char, prevChar, used, symSet, symCount, maxSym, noSeq) ==
  IF ~used.isNull /\ char \in used.items THEN FALSE
  ELSE IF noSeq /\ prevChar # Null
            /\ Abs(charCodeAt(char) - charCodeAt(prevChar)) = 1 THEN FALSE
  ELSE IF ~symSet.isNull /\ char \in symSet.items /\ symCount >= maxSym
    THEN FALSE
  ELSE TRUE

\* hasStrictConstraints of getValidChar; the products by 0.5 and 0.9 are
\* compared as fractions
hasStrictConstraints(cs, used, symSet, symCount, maxSym, noSeq) ==
  \/ ~used.isNull /\ 2 * Cardinality(used.items) > Len(cs)
  \/ ~symSet.isNull /\ 10 * symCount >= 9 * maxSym
  \/ noSeq

\* validChars of getValidChar where the scan starts at the second character
validCharsOf_SkipsFirst(cs, prevChar, used, symSet, symCount, maxSym, noSeq) ==
  SelectSeq(SubSeq(cs, 2, Len(cs)), LAMBDA c :
    isValidChar(c, prevChar, used, symSet, symCount, maxSym, noSeq))

\* validChars of getValidChar
validCharsOf(cs, prevChar, used, symSet, symCount, maxSym, noSeq) ==
  SelectSeq(cs, LAMBDA c :
    isValidChar(c, prevChar, used, symSet, symCount, maxSym, noSeq))

\* the value undefined of an empty array slot
Undefined == "undefined"

\* Array.prototype.join("") and Array.prototype.slice(0, end), end >= 0
join(arr) == SelectSeq(arr, LAMBDA c : c # Undefined)
slice(arr, end) == SubSeq(arr, 1, IF end < Len(arr) THEN end ELSE Len(arr))

\* s[index] of a string or an array: undefined outside of 0..length-1
At(s, index) ==
  IF index >= 0 /\ index < Len(s) THEN s[index + 1] ELSE Undefined

\* [a[x], a[y]] = [a[y], a[x]]
swap(arr, x, y) == [arr EXCEPT ![x] = arr[y], ![y] = arr[x]]

(***************************************************************************)
(* The settings read from the form (getSettingsFromForm).                  *)
(***************************************************************************)
\* the values of the custom symbols field: empty (the default symbols are
\* used), a symbol next to "A" in code order, a field of similar characters
\* that overlaps the digits, and a field that repeats a character
CustomSymbolsChoices ==
  { << >>, << "@" >>, << "l", "1" >>, << "!", "!" >> }

\* settings with a short password, over every combination of the options
ShortSettings ==
  { s \in [ length : 1..MaxLen, amount : {1},
            includeNumbers : BOOLEAN, includeLowercase : BOOLEAN,
            includeUppercase : BOOLEAN, includeSymbols : BOOLEAN,
            customSymbols : CustomSymbolsChoices,
            noStartNumber : BOOLEAN, noStartSymbol : BOOLEAN,
            noSimilar : BOOLEAN, noDuplicate : BOOLEAN,
            noSequential : BOOLEAN ] :
      ~s.includeSymbols => s.customSymbols = << >> }

\* settings of a batch of several passwords, over the digits, and over the
\* digits that are not similar characters and the default symbols
BatchSettings ==
  { s \in [ length : 1..MaxLen, amount : 2..MaxAmount,
            includeNumbers : {TRUE}, includeLowercase : {FALSE},
            includeUppercase : {FALSE}, includeSymbols : BOOLEAN,
            customSymbols : { << >> },
            noStartNumber : {FALSE}, noStartSymbol : {FALSE},
            noSimilar : BOOLEAN, noDuplicate : BOOLEAN,
            noSequential : BOOLEAN ] :
      s.includeSymbols => s.noSimilar }

\* settings with a long password over a small alphabet, where the symbol
\* quota is above 1
LongSettings ==
  [ length : {LongLen}, amount : {1},
    includeNumbers : {FALSE}, includeLowercase : {FALSE},
    includeUppercase : {TRUE}, includeSymbols : {TRUE},
    customSymbols : { << "@" >> },
    noStartNumber : {FALSE}, noStartSymbol : BOOLEAN,
    noSimilar : {FALSE}, noDuplicate : {FALSE},
    noSequential : BOOLEAN ]

SettingsSpace == ShortSettings \cup BatchSettings \cup LongSettings

(***************************************************************************)
(* State.                                                                  *)
(***************************************************************************)
VARIABLES
  settings,       \* the settings record of the form
  pc,             \* position of the generatePasswords handler
  passwordList,   \* the passwords of the element "password-list", in order
  tooltip,        \* the error shown by showTooltip, or NoError
  charset,        \* generatePasswords: charset
  firstCharPool,  \* generatePasswords: firstCharPool
  symbolsSet,     \* generatePasswords: symbolsSet
  i,              \* generatePasswords: index of the password being generated
  gsCharset,      \* generateSinglePassword: charset, after filtering
  gsFirstCharPool,\* generateSinglePassword: firstCharPool, after filtering
  maxSymbols,     \* generateSinglePassword: maxSymbols
  symbolsSet2,    \* generateSinglePassword: symbolsSet2
  passwordArray,  \* generateSinglePassword: passwordArray
  usedChars,      \* generateSinglePassword: usedChars
  symbolCount,    \* generateSinglePassword: symbolCount
  pos,            \* generateSinglePassword: index of the position to fill
  attempts,       \* getValidChar: number of quick attempts made
  firstChar,      \* generateNoDuplicatePassword: firstChar
  chars,          \* generateNoDuplicatePassword: chars
  k,              \* generateNoDuplicatePassword: index i of the shuffle
  password,       \* the string returned by generateSinglePassword
  srMax,          \* secureRandom: max of the latest call made for the
                  \* password being generated, 0 when none was made
  srResult,       \* secureRandom: the value that call returned
  form,           \* the checkboxes of the options form: checked, disabled
  lastHandler,    \* the handler that ran last on the options form
  icons,          \* the copy icons: flag, class, promise and timer of each
  copyEvent,      \* the callback that ran last on a copy icon
  clipboard       \* the icon whose password the clipboard holds, 0 for none

gpVars == << settings, passwordList, tooltip, charset, firstCharPool,
             symbolsSet, i >>
gsVars == << gsCharset, gsFirstCharPool, maxSymbols, symbolsSet2,
             passwordArray, usedChars, symbolCount, pos, attempts >>
ndVars == << firstChar, chars, k >>
srVars == << srMax, srResult >>
genVars == << pc, gpVars, gsVars, ndVars, password, srVars >>
pageVars == << form, lastHandler, icons, copyEvent, clipboard >>
vars == << genVars, pageVars >>

\* the call secureRandom(max) is made and the random word is word
Draw(word, max) ==
  /\ srMax' = max
  /\ srResult' = secureRandom(word, max)

(***************************************************************************)
(* The options form: the checkboxes of the character categories and the    *)
(* three options that updateAllOptions enables and disables.               *)
(***************************************************************************)
CategoryIds ==
  {"include-numbers", "include-lowercase", "include-uppercase",
   "include-symbols"}
OptionIds == {"no-start-number", "no-start-symbol", "no-similar"}

\* the states of the form: every checkbox checked or not, every option
\* disabled or not
FormSpace ==
  [ checked : [CategoryIds \cup OptionIds -> BOOLEAN],
    disabled : [OptionIds -> BOOLEAN] ]

\* checkbox.checked = false; checkbox.disabled = true
UncheckAndDisable(f, id) ==
  [f EXCEPT !.checked[id] = FALSE, !.disabled[id] = TRUE]

\* checkbox.disabled = false
Enable(f, id) == [f EXCEPT !.disabled[id] = FALSE]

\* updateNoStartNumber that disables the option and leaves it checked
updateNoStartNumber_DisablesOnly(f) ==
  IF ~f.checked["include-numbers"]
    THEN UncheckAndDisable(f, "no-start-number")
  ELSE IF \/ f.checked["include-lowercase"]
          \/ f.checked["include-uppercase"]
          \/ f.checked["include-symbols"]
    THEN Enable(f, "no-start-number")
  ELSE [f EXCEPT !.disabled["no-start-number"] = TRUE]

updateNoStartNumber(f) ==
  IF ~f.checked["include-numbers"]
    THEN UncheckAndDisable(f, "no-start-number")
  ELSE IF \/ f.checked["include-lowercase"]
          \/ f.checked["include-uppercase"]
          \/ f.checked["include-symbols"]
    THEN Enable(f, "no-start-number")
  ELSE UncheckAndDisable(f, "no-start-number")

updateNoStartSymbol(f) ==
  IF ~f.checked["include-symbols"]
    THEN UncheckAndDisable(f, "no-start-symbol")
  ELSE IF \/ f.checked["include-lowercase"]
          \/ f.checked["include-uppercase"]
          \/ f.checked["include-numbers"]
    THEN Enable(f, "no-start-symbol")
  ELSE UncheckAndDisable(f, "no-start-symbol")

updateNoSimilar(f) ==
  LET numbersOnly == /\ f.checked["include-numbers"]
                     /\ ~f.checked["include-lowercase"]
                     /\ ~f.checked["include-uppercase"]
                     /\ ~f.checked["include-symbols"]
  IN  IF numbersOnly THEN UncheckAndDisable(f, "no-similar")
      ELSE Enable(f, "no-similar")

updateAllOptions(f) ==
  updateNoSimilar(updateNoStartSymbol(updateNoStartNumber(f)))

\* the form of getSettingsFromForm's defaults, after updateAllOptions
DefaultForm ==
  updateAllOptions(
    [ checked |-> [id \in CategoryIds \cup OptionIds |->
                     id \in {"include-numbers", "include-lowercase",
                             "include-uppercase"}],
      disabled |-> [id \in OptionIds |-> FALSE] ])

(***************************************************************************)
(* The copy icons of the password list.                                    *)
(***************************************************************************)
Icons == 1..MaxIcons

\* an icon nobody clicked: no copying flag, no class, no promise, no timer
IdleIcon ==
  [ copying |-> FALSE, clicked |-> FALSE, promise |-> "none",
    timer |-> FALSE, writes |-> 0 ]

NoEvent == << "none", 0 >>

\* the page when no handler has run on the form or on an icon
PageIdle ==
  /\ lastHandler = "none"
  /\ icons = [e \in Icons |-> IdleIcon]
  /\ copyEvent = NoEvent
  /\ clipboard = 0

\* the locals of generateSinglePassword and of the functions it calls, when
\* no call is active
NoCall ==
  /\ gsCharset = << >>
  /\ gsFirstCharPool = << >>
  /\ maxSymbols = 0
  /\ symbolsSet2 = NullSet
  /\ passwordArray = << >>
  /\ usedChars = NullSet
  /\ symbolCount = 0
  /\ pos = 0
  /\ attempts = 0
  /\ firstChar = Null
  /\ chars = << >>
  /\ k = 0
  /\ password = << >>
  /\ srMax = 0
  /\ srResult = 0

Init ==
  /\ settings \in SettingsSpace
  /\ pc = "ready"
  /\ passwordList = << >>
  /\ tooltip = NoError
  /\ charset = << >>
  /\ firstCharPool = << >>
  /\ symbolsSet = << >>
  /\ i = 0
  /\ NoCall
  /\ form = DefaultForm
  /\ PageIdle

\* the locals of a call are discarded when it returns or throws
EndCall ==
  /\ gsCharset' = << >>
  /\ gsFirstCharPool' = << >>
  /\ maxSymbols' = 0
  /\ symbolsSet2' = NullSet
  /\ passwordArray' = << >>
  /\ usedChars' = NullSet
  /\ symbolCount' = 0
  /\ pos' = 0
  /\ attempts' = 0
  /\ firstChar' = Null
  /\ chars' = << >>
  /\ k' = 0
  /\ srMax' = 0
  /\ srResult' = 0

\* an error handler that shows the error and goes on with the loop
Throw_Retries(error) ==
  /\ tooltip' = error
  /\ pc' = "loop"
  /\ password' = << >>
  /\ EndCall
  /\ UNCHANGED << settings, passwordList, charset, firstCharPool,
                  symbolsSet, i >>

\* an error handler that also clears the list
Throw_ClearsList(error) ==
  /\ tooltip' = error
  /\ pc' = "done"
  /\ password' = << >>
  /\ passwordList' = << >>
  /\ EndCall
  /\ UNCHANGED << settings, charset, firstCharPool, symbolsSet, i >>

\* catch (error) { showTooltip(error.message, "error"); return; }
Throw(error) ==
  /\ tooltip' = error
  /\ pc' = "done"
  /\ password' = << >>
  /\ EndCall
  /\ UNCHANGED << settings, passwordList, charset, firstCharPool,
                  symbolsSet, i >>

(***************************************************************************)
(* generatePasswords, up to the loop: the list is cleared, the character   *)
(* sets are built and checked.                                             *)
(***************************************************************************)
\* generatePasswords where validateConstraints is called before the check of
\* the first-character pool
GeneratePasswords_ValidatesFirst ==
  /\ pc = "ready"
  /\ UNCHANGED pageVars
  /\ passwordList' = << >>
  /\ symbolsSet' = symbolsSetOf(settings)
  /\ charset' = charsetOf(settings)
  /\ LET pool == firstCharPoolOf(settings)
         invalid == validateConstraints(settings.length, charsetOf(settings),
                                        pool, settings.noDuplicate)
     IN  IF charsetOf(settings) = << >>
           THEN /\ firstCharPool' = << >>
                /\ tooltip' = ErrEmptyCharset
                /\ pc' = "done"
         ELSE IF invalid # NoError
           THEN /\ firstCharPool' = pool
                /\ tooltip' = invalid
                /\ pc' = "done"
         ELSE IF Len(pool) = 0
           THEN /\ firstCharPool' = pool
                /\ tooltip' = ErrNoStart
                /\ pc' = "done"
         ELSE /\ firstCharPool' = pool
              /\ tooltip' = NoError
              /\ pc' = "loop"
  /\ i' = 0
  /\ UNCHANGED << settings, gsVars, ndVars, password, srVars >>

\* generatePasswords where validateConstraints gets the character sets after
\* the similarity filtering
GeneratePasswords_ValidatesFiltered ==
  /\ pc = "ready"
  /\ UNCHANGED pageVars
  /\ passwordList' = << >>
  /\ symbolsSet' = symbolsSetOf(settings)
  /\ charset' = charsetOf(settings)
  /\ LET pool == firstCharPoolOf(settings)
         invalid == IF settings.noSimilar
                      THEN validateConstraints(settings.length,
                             filterSimilarChars(charsetOf(settings),
                                                similarChars),
                             filterSimilarChars(pool, similarChars),
                             settings.noDuplicate)
                      ELSE validateConstraints(settings.length,
                             charsetOf(settings), pool,
                             settings.noDuplicate)
     IN  IF charsetOf(settings) = << >>
           THEN /\ firstCharPool' = << >>
                /\ tooltip' = ErrEmptyCharset
                /\ pc' = "done"
         ELSE IF Len(pool) = 0
           THEN /\ firstCharPool' = pool
                /\ tooltip' = ErrNoStart
                /\ pc' = "done"
         ELSE IF invalid # NoError
           THEN /\ firstCharPool' = pool
                /\ tooltip' = invalid
                /\ pc' = "done"
         ELSE /\ firstCharPool' = pool
              /\ tooltip' = NoError
              /\ pc' = "loop"
  /\ i' = 0
  /\ UNCHANGED << settings, gsVars, ndVars, password, srVars >>

\* generatePasswords up to the loop
GeneratePasswords ==
  /\ pc = "ready"
  /\ UNCHANGED pageVars
  /\ passwordList' = << >>
  /\ symbolsSet' = symbolsSetOf(settings)
  /\ charset' = charsetOf(settings)
  /\ LET pool == firstCharPoolOf(settings)
         invalid == validateConstraints(settings.length, charsetOf(settings),
                                        pool, settings.noDuplicate)
     IN  IF charsetOf(settings) = << >>
           THEN /\ firstCharPool' = << >>
                /\ tooltip' = ErrEmptyCharset
                /\ pc' = "done"
         ELSE IF Len(pool) = 0
           THEN /\ firstCharPool' = pool
                /\ tooltip' = ErrNoStart
                /\ pc' = "done"
         ELSE IF invalid # NoError
           THEN /\ firstCharPool' = pool
                /\ tooltip' = invalid
                /\ pc' = "done"
         ELSE /\ firstCharPool' = pool
              /\ tooltip' = NoError
              /\ pc' = "loop"
  /\ i' = 0
  /\ UNCHANGED << settings, gsVars, ndVars, password, srVars >>

(***************************************************************************)
(* One iteration of the loop of generatePasswords calls                    *)
(* generateSinglePassword, which filters the similar characters and then   *)
(* takes the shuffle path or prepares the general path.                    *)
(***************************************************************************)
\* generateSinglePassword that filters the similar characters out of the
\* charset only
GenerateSinglePassword_FiltersCharsetOnly ==
  /\ pc = "loop"
  /\ UNCHANGED pageVars
  /\ i < settings.amount
  /\ LET cs == IF settings.noSimilar
                 THEN filterSimilarChars(charset, similarChars) ELSE charset
         pool == firstCharPool
     IN  IF settings.noSimilar /\ Len(cs) = 0 THEN Throw(ErrSimilarCharset)
         ELSE IF settings.noSimilar /\ Len(pool) = 0 THEN Throw(ErrSimilarStart)
         ELSE
           /\ gsCharset' = cs
           /\ gsFirstCharPool' = pool
           /\ IF settings.noDuplicate /\ ~settings.noSequential
                   /\ symbolsSet = << >>
                THEN /\ pc' = "nodup"
                     /\ UNCHANGED << maxSymbols, symbolsSet2, passwordArray,
                                     usedChars >>
                ELSE /\ pc' = "select"
                     /\ maxSymbols' = maxSymbolsOf(settings.length, symbolsSet)
                     /\ symbolsSet2' = IF symbolsSet # << >>
                                         THEN NewSet(SetOf(symbolsSet))
                                         ELSE NullSet
                     /\ passwordArray' =
                          [n \in 1..settings.length |-> Undefined]
                     /\ usedChars' = IF settings.noDuplicate
                                       THEN NewSet({}) ELSE NullSet
           /\ UNCHANGED << symbolCount, pos, attempts, ndVars, password,
                           gpVars, srVars >>

\* generateSinglePassword that takes the shuffle path whatever the symbol set
GenerateSinglePassword_IgnoresSymbols ==
  /\ pc = "loop"
  /\ UNCHANGED pageVars
  /\ i < settings.amount
  /\ LET cs == IF settings.noSimilar
                 THEN filterSimilarChars(charset, similarChars) ELSE charset
         pool == IF settings.noSimilar
                   THEN filterSimilarChars(firstCharPool, similarChars)
                   ELSE firstCharPool
     IN  IF settings.noSimilar /\ Len(cs) = 0 THEN Throw(ErrSimilarCharset)
         ELSE IF settings.noSimilar /\ Len(pool) = 0 THEN Throw(ErrSimilarStart)
         ELSE
           /\ gsCharset' = cs
           /\ gsFirstCharPool' = pool
           /\ IF settings.noDuplicate /\ ~settings.noSequential
                THEN /\ pc' = "nodup"
                     /\ UNCHANGED << maxSymbols, symbolsSet2, passwordArray,
                                     usedChars >>
                ELSE /\ pc' = "select"
                     /\ maxSymbols' = maxSymbolsOf(settings.length, symbolsSet)
                     /\ symbolsSet2' = IF symbolsSet # << >>
                                         THEN NewSet(SetOf(symbolsSet))
                                         ELSE NullSet
                     /\ passwordArray' =
                          [n \in 1..settings.length |-> Undefined]
                     /\ usedChars' = IF settings.noDuplicate
                                       THEN NewSet({}) ELSE NullSet
           /\ UNCHANGED << symbolCount, pos, attempts, ndVars, password,
                           gpVars, srVars >>

GenerateSinglePassword ==
  /\ pc = "loop"
  /\ UNCHANGED pageVars
  /\ i < settings.amount
  /\ LET cs == IF settings.noSimilar
                 THEN filterSimilarChars(charset, similarChars) ELSE charset
         pool == IF settings.noSimilar
                   THEN filterSimilarChars(firstCharPool, similarChars)
                   ELSE firstCharPool
     IN  IF settings.noSimilar /\ Len(cs) = 0 THEN Throw(ErrSimilarCharset)
         ELSE IF settings.noSimilar /\ Len(pool) = 0 THEN Throw(ErrSimilarStart)
         ELSE
           /\ gsCharset' = cs
           /\ gsFirstCharPool' = pool
           /\ IF settings.noDuplicate /\ ~settings.noSequential
                   /\ symbolsSet = << >>
                THEN /\ pc' = "nodup"
                     /\ UNCHANGED << maxSymbols, symbolsSet2, passwordArray,
                                     usedChars >>
                ELSE /\ pc' = "select"
                     /\ maxSymbols' = maxSymbolsOf(settings.length, symbolsSet)
                     /\ symbolsSet2' = IF symbolsSet # << >>
                                         THEN NewSet(SetOf(symbolsSet))
                                         ELSE NullSet
                     /\ passwordArray' =
                          [n \in 1..settings.length |-> Undefined]
                     /\ usedChars' = IF settings.noDuplicate
                                       THEN NewSet({}) ELSE NullSet
           /\ UNCHANGED << symbolCount, pos, attempts, ndVars, password,
                           gpVars, srVars >>

\* the loop of generatePasswords ends after amount passwords
Finish ==
  /\ pc = "loop"
  /\ UNCHANGED pageVars
  /\ i >= settings.amount
  /\ pc' = "done"
  /\ UNCHANGED << gpVars, gsVars, ndVars, password, srVars >>

(***************************************************************************)
(* The general path: getValidChar for the position pos, and the            *)
(* bookkeeping of generateSinglePassword for the character it returns.     *)
(***************************************************************************)
\* the first character drawn from the full charset
poolAt_AlwaysCharset(p) == gsCharset

\* the alphabet and the previous character passed to getValidChar
poolAt(p) == IF p = 0 THEN gsFirstCharPool ELSE gsCharset
prevCharAt(p) == IF p = 0 THEN Null ELSE passwordArray[p]

\* the bookkeeping where the loop stores the character at index i - 1
Accept_WritesPrevious(char) ==
  /\ passwordArray' =
       [passwordArray EXCEPT ![IF pos = 0 THEN 1 ELSE pos] = char]
  /\ usedChars' = IF settings.noDuplicate
                    THEN NewSet(usedChars.items \cup {char}) ELSE usedChars
  /\ symbolCount' = IF ~symbolsSet2.isNull /\ char \in symbolsSet2.items
                      THEN symbolCount + 1 ELSE symbolCount
  /\ pos' = pos + 1
  /\ attempts' = 0
  /\ IF pos + 1 < settings.length
       THEN /\ pc' = "select"
            /\ password' = password
       ELSE /\ pc' = "return"
            /\ password' = join(passwordArray')
  /\ UNCHANGED << gpVars, gsCharset, gsFirstCharPool, maxSymbols,
                  symbolsSet2, ndVars >>

\* the bookkeeping without the count of the symbols
Accept_NoSymbolCount(char) ==
  /\ passwordArray' = [passwordArray EXCEPT ![pos + 1] = char]
  /\ usedChars' = IF settings.noDuplicate
                    THEN NewSet(usedChars.items \cup {char}) ELSE usedChars
  /\ symbolCount' = symbolCount
  /\ pos' = pos + 1
  /\ attempts' = 0
  /\ IF pos + 1 < settings.length
       THEN /\ pc' = "select"
            /\ password' = password
       ELSE /\ pc' = "return"
            /\ password' = join(passwordArray')
  /\ UNCHANGED << gpVars, gsCharset, gsFirstCharPool, maxSymbols,
                  symbolsSet2, ndVars >>

\* getValidChar returned char for the position pos
Accept(char) ==
  /\ passwordArray' = [passwordArray EXCEPT ![pos + 1] = char]
  /\ usedChars' = IF settings.noDuplicate
                    THEN NewSet(usedChars.items \cup {char}) ELSE usedChars
  /\ symbolCount' = IF ~symbolsSet2.isNull /\ char \in symbolsSet2.items
                      THEN symbolCount + 1 ELSE symbolCount
  /\ pos' = pos + 1
  /\ attempts' = 0
  /\ IF pos + 1 < settings.length
       THEN /\ pc' = "select"
            /\ password' = password
       ELSE /\ pc' = "return"
            /\ password' = join(passwordArray')
  /\ UNCHANGED << gpVars, gsCharset, gsFirstCharPool, maxSymbols,
                  symbolsSet2, ndVars >>

\* a fast path whose failed draws are not counted
GetValidCharFast_Uncounted ==
  /\ pc = "select"
  /\ UNCHANGED pageVars
  /\ ~hasStrictConstraints(poolAt(pos), usedChars, symbolsSet2, symbolCount,
                           maxSymbols, settings.noSequential)
  /\ attempts < attemptsLimit
  /\ \E word \in RandomWords :
       LET char == At(poolAt(pos), secureRandom(word, Len(poolAt(pos))))
       IN  /\ Draw(word, Len(poolAt(pos)))
           /\ IF isValidChar(char, prevCharAt(pos), usedChars, symbolsSet2,
                             symbolCount, maxSymbols, settings.noSequential)
                THEN Accept(char)
                ELSE /\ attempts' = attempts
                     /\ UNCHANGED << pc, gpVars, gsCharset, gsFirstCharPool,
                                     maxSymbols, symbolsSet2, passwordArray,
                                     usedChars, symbolCount, pos, ndVars,
                                     password >>

\* a fast path that returns the character drawn without checking it
GetValidCharFast_Unchecked ==
  /\ pc = "select"
  /\ UNCHANGED pageVars
  /\ ~hasStrictConstraints(poolAt(pos), usedChars, symbolsSet2, symbolCount,
                           maxSymbols, settings.noSequential)
  /\ attempts < attemptsLimit
  /\ \E word \in RandomWords :
       LET char == At(poolAt(pos), secureRandom(word, Len(poolAt(pos))))
       IN  /\ Draw(word, Len(poolAt(pos)))
           /\ IF char # Undefined
                THEN Accept(char)
                ELSE /\ attempts' = attempts + 1
                     /\ UNCHANGED << pc, gpVars, gsCharset, gsFirstCharPool,
                                     maxSymbols, symbolsSet2, passwordArray,
                                     usedChars, symbolCount, pos, ndVars,
                                     password >>

\* one quick attempt of getValidChar
GetValidCharFast ==
  /\ pc = "select"
  /\ UNCHANGED pageVars
  /\ ~hasStrictConstraints(poolAt(pos), usedChars, symbolsSet2, symbolCount,
                           maxSymbols, settings.noSequential)
  /\ attempts < attemptsLimit
  /\ \E word \in RandomWords :
       LET char == At(poolAt(pos), secureRandom(word, Len(poolAt(pos))))
       IN  /\ Draw(word, Len(poolAt(pos)))
           /\ IF isValidChar(char, prevCharAt(pos), usedChars, symbolsSet2,
                             symbolCount, maxSymbols, settings.noSequential)
                THEN Accept(char)
                ELSE /\ attempts' = attempts + 1
                     /\ UNCHANGED << pc, gpVars, gsCharset, gsFirstCharPool,
                                     maxSymbols, symbolsSet2, passwordArray,
                                     usedChars, symbolCount, pos, ndVars,
                                     password >>

\* the fallback of getValidChar: the valid characters are collected
GetValidCharSlow ==
  /\ pc = "select"
  /\ UNCHANGED pageVars
  /\ \/ hasStrictConstraints(poolAt(pos), usedChars, symbolsSet2, symbolCount,
                             maxSymbols, settings.noSequential)
     \/ attempts >= attemptsLimit
  /\ LET validChars == validCharsOf(poolAt(pos), prevCharAt(pos), usedChars,
                                    symbolsSet2, symbolCount, maxSymbols,
                                    settings.noSequential)
     IN  IF Len(validChars) = 0
           THEN Throw(IF pos = 0 THEN ErrStartChar ELSE ErrPosition(pos + 1))
           ELSE \E word \in RandomWords :
                  /\ Draw(word, Len(validChars))
                  /\ Accept(At(validChars,
                               secureRandom(word, Len(validChars))))

(***************************************************************************)
(* The shuffle path: generateNoDuplicatePassword.                          *)
(***************************************************************************)
\* the first character is drawn and removed from the characters to shuffle
NoDuplicateFirst ==
  /\ pc = "nodup"
  /\ UNCHANGED pageVars
  /\ \E word \in RandomWords :
       LET c == At(gsFirstCharPool,
                   secureRandom(word, Len(gsFirstCharPool)))
       IN  /\ Draw(word, Len(gsFirstCharPool))
           /\ firstChar' = c
           /\ chars' = SelectSeq(gsCharset, LAMBDA x : x # c)
           /\ k' = Len(chars') - 1
  /\ pc' = "shuffle"
  /\ UNCHANGED << gpVars, gsVars, password >>

\* one iteration of the Fisher-Yates loop
ShuffleStep ==
  /\ pc = "shuffle"
  /\ UNCHANGED pageVars
  /\ k > 0
  /\ \E word \in RandomWords :
       /\ Draw(word, k + 1)
       /\ chars' = swap(chars, k + 1, secureRandom(word, k + 1) + 1)
  /\ k' = k - 1
  /\ UNCHANGED << pc, gpVars, gsVars, firstChar, password >>

\* return firstChar + chars.slice(0, length - 1).join('')
NoDuplicateReturn ==
  /\ pc = "shuffle"
  /\ UNCHANGED pageVars
  /\ k <= 0
  /\ password' = << firstChar >> \o join(slice(chars, settings.length - 1))
  /\ pc' = "return"
  /\ UNCHANGED << gpVars, gsVars, ndVars, srVars >>

(***************************************************************************)
(* The password returned is appended to the list and the loop goes on.     *)
(***************************************************************************)
\* a return after which the count of symbols is kept for the next password
AppendPassword_KeepsSymbolCount ==
  /\ pc = "return"
  /\ UNCHANGED pageVars
  /\ passwordList' = Append(passwordList, password)
  /\ i' = i + 1
  /\ pc' = "loop"
  /\ password' = << >>
  /\ gsCharset' = << >>
  /\ gsFirstCharPool' = << >>
  /\ maxSymbols' = 0
  /\ symbolsSet2' = NullSet
  /\ passwordArray' = << >>
  /\ usedChars' = NullSet
  /\ pos' = 0
  /\ attempts' = 0
  /\ firstChar' = Null
  /\ chars' = << >>
  /\ k' = 0
  /\ srMax' = 0
  /\ srResult' = 0
  /\ UNCHANGED << settings, tooltip, charset, firstCharPool, symbolsSet,
                  symbolCount >>

\* passwordList.appendChild(passwordElement) and the next iteration
AppendPassword ==
  /\ pc = "return"
  /\ UNCHANGED pageVars
  /\ passwordList' = Append(passwordList, password)
  /\ i' = i + 1
  /\ pc' = "loop"
  /\ password' = << >>
  /\ EndCall
  /\ UNCHANGED << settings, tooltip, charset, firstCharPool, symbolsSet >>

Next ==
  \/ GeneratePasswords
  \/ GenerateSinglePassword
  \/ Finish
  \/ GetValidCharFast
  \/ GetValidCharSlow
  \/ NoDuplicateFirst
  \/ ShuffleStep
  \/ NoDuplicateReturn
  \/ AppendPassword

Spec == Init /\ [][Next]_vars

\* the call runs on the event loop until it returns or throws: a step that
\* can be taken is taken
FairSpec == Spec /\ WF_vars(Next)

TypeOK ==
  /\ pc \in {"ready", "loop", "select", "nodup", "shuffle", "return", "done"}
  /\ i \in 0..settings.amount

(***************************************************************************)
(* The options form: the handlers that change the checkboxes.              *)
(***************************************************************************)
\* the generator when generatePasswords has not been called
GenIdle ==
  /\ settings = CHOOSE s \in LongSettings : TRUE
  /\ pc = "ready"
  /\ passwordList = << >>
  /\ tooltip = NoError
  /\ charset = << >>
  /\ firstCharPool = << >>
  /\ symbolsSet = << >>
  /\ i = 0
  /\ NoCall

\* any state of the checkboxes, before a handler has run
FormInit ==
  /\ form \in FormSpace
  /\ PageIdle
  /\ GenIdle

\* the user changes a category checkbox: its change listener is
\* updateAllOptions
ChangeCategory ==
  /\ \E id \in CategoryIds :
       form' = updateAllOptions([form EXCEPT !.checked[id] = ~@])
  /\ lastHandler' = "updateAllOptions"
  /\ UNCHANGED << genVars, icons, copyEvent, clipboard >>

\* the user changes an option that is not disabled: its change listener is
\* updateSettingsCookie, which leaves the form as it is
ChangeOption ==
  /\ \E id \in OptionIds :
       /\ ~form.disabled[id]
       /\ form' = [form EXCEPT !.checked[id] = ~@]
  /\ lastHandler' = "updateSettingsCookie"
  /\ UNCHANGED << genVars, icons, copyEvent, clipboard >>

\* applySettingsToForm: the checkboxes are set from saved settings, then
\* updateAllOptions runs
ApplySettingsToForm ==
  /\ \E saved \in [CategoryIds \cup OptionIds -> BOOLEAN] :
       form' = updateAllOptions([form EXCEPT !.checked = saved])
  /\ lastHandler' = "updateAllOptions"
  /\ UNCHANGED << genVars, icons, copyEvent, clipboard >>

FormNext ==
  \/ ChangeCategory
  \/ ChangeOption
  \/ ApplySettingsToForm

FormSpec == FormInit /\ [][FormNext]_vars

(***************************************************************************)
(* The copy icons: handleCopyClick and the callbacks of its promise.       *)
(***************************************************************************)
\* the generator after a batch of MaxIcons passwords of one uppercase letter
GenDone ==
  /\ settings = [ length |-> 1, amount |-> MaxIcons,
                  includeNumbers |-> FALSE, includeLowercase |-> FALSE,
                  includeUppercase |-> TRUE, includeSymbols |-> FALSE,
                  customSymbols |-> << >>,
                  noStartNumber |-> FALSE, noStartSymbol |-> FALSE,
                  noSimilar |-> FALSE, noDuplicate |-> FALSE,
                  noSequential |-> FALSE ]
  /\ pc = "done"
  /\ passwordList = [e \in Icons |-> << uppercaseSet[1] >>]
  /\ tooltip = NoError
  /\ charset = uppercaseSet
  /\ firstCharPool = uppercaseSet
  /\ symbolsSet = << >>
  /\ i = MaxIcons
  /\ NoCall

\* the list shows its passwords, each with an icon nobody clicked
CopyInit ==
  /\ form = DefaultForm
  /\ PageIdle
  /\ GenDone

\* handleCopyClick without the check of the copying flag
HandleCopyClick_NoGuard(e) ==
  /\ icons' = [icons EXCEPT ![e] =
                 [@ EXCEPT !.copying = TRUE, !.clicked = TRUE,
                           !.promise = "pending", !.writes = @ + 1]]
  /\ copyEvent' = << "click", e >>
  /\ UNCHANGED << genVars, form, lastHandler, clipboard >>

\* handleCopyClick(element, password): a click on the icon e
HandleCopyClick(e) ==
  /\ IF icons[e].copying
       THEN /\ copyEvent' = << "ignored", e >>
            /\ UNCHANGED icons
       ELSE /\ icons' = [icons EXCEPT ![e] =
                           [@ EXCEPT !.copying = TRUE, !.clicked = TRUE,
                                     !.promise = "pending",
                                     !.writes = @ + 1]]
            /\ copyEvent' = << "click", e >>
  /\ UNCHANGED << genVars, form, lastHandler, clipboard >>

\* the promise of copyToClipboard settles: the write succeeded or failed
CopyToClipboardSettles(e) ==
  /\ icons[e].promise = "pending"
  /\ \E ok \in BOOLEAN :
       /\ icons' = [icons EXCEPT ![e] =
                      [@ EXCEPT !.promise = IF ok THEN "fulfilled"
                                                  ELSE "rejected",
                                !.writes = @ - 1]]
       /\ clipboard' = IF ok THEN e ELSE clipboard
  /\ UNCHANGED << genVars, form, lastHandler, copyEvent >>

\* .then(() => showTooltip("Password copied", "success"))
OnFulfilled(e) ==
  /\ icons[e].promise = "fulfilled"
  /\ icons' = [icons EXCEPT ![e].promise = "handled"]
  /\ copyEvent' = << "Password copied", e >>
  /\ UNCHANGED << genVars, form, lastHandler, clipboard >>

\* .catch(() => showTooltip("Failed to copy password", "error"))
OnRejected(e) ==
  /\ icons[e].promise = "rejected"
  /\ icons' = [icons EXCEPT ![e].promise = "handled"]
  /\ copyEvent' = << "Failed to copy password", e >>
  /\ UNCHANGED << genVars, form, lastHandler, clipboard >>

\* .finally(() => setTimeout(..., 300))
OnFinally(e) ==
  /\ icons[e].promise = "handled"
  /\ icons' = [icons EXCEPT ![e] =
                 [@ EXCEPT !.promise = "none", !.timer = TRUE]]
  /\ UNCHANGED << genVars, form, lastHandler, copyEvent, clipboard >>

\* the callback of setTimeout: the class and the copying flag are removed
Timeout(e) ==
  /\ icons[e].timer
  /\ icons' = [icons EXCEPT ![e] =
                 [@ EXCEPT !.timer = FALSE, !.clicked = FALSE,
                           !.copying = FALSE]]
  /\ UNCHANGED << genVars, form, lastHandler, copyEvent, clipboard >>

CopyNext ==
  \E e \in Icons :
    \/ HandleCopyClick(e)
    \/ CopyToClipboardSettles(e)
    \/ OnFulfilled(e)
    \/ OnRejected(e)
    \/ OnFinally(e)
    \/ Timeout(e)

\* the event loop runs every callback that is due; clicks and the outcome
\* of the clipboard write are up to the user and the browser
CopySpec ==
  /\ CopyInit
  /\ [][CopyNext]_vars
  /\ \A e \in Icons :
       /\ WF_vars(OnFulfilled(e))
       /\ WF_vars(OnRejected(e))
       /\ WF_vars(OnFinally(e))
       /\ WF_vars(Timeout(e))

(***************************************************************************)
(* Properties.                                                             *)
(***************************************************************************)
\* the passwords returned so far: those of the list and the one being returned
Returned ==
  { passwordList[n] : n \in 1..Len(passwordList) }
    \cup (IF pc = "return" THEN {password} ELSE {})

\* the charset of the settings after the similarity filtering
FilteredCharset(s) ==
  IF s.noSimilar THEN Without(charsetOf(s), {"i", "I", "l", "1", "o", "O", "0"})
  ELSE charsetOf(s)

\* the first-character pool of the settings after the similarity filtering
FilteredFirstCharPool(s) ==
  IF s.noSimilar
    THEN Without(firstCharPoolOf(s), {"i", "I", "l", "1", "o", "O", "0"})
    ELSE firstCharPoolOf(s)

\* the three feasibility checks pass on the settings
Feasible(s) ==
  /\ Len(charsetOf(s)) > 0
  /\ Len(firstCharPoolOf(s)) > 0
  /\ s.noDuplicate => s.length <= Len(charsetOf(s))

\* C1: for settings that pass validation, a finished batch has produced
\* exactly amount passwords, each of exactly length characters.
C1_BatchProducesAmountOfLength ==
  (pc = "done" /\ Feasible(settings)) =>
    /\ Len(passwordList) = settings.amount
    /\ \A n \in 1..Len(passwordList) :
         Len(passwordList[n]) = settings.length

\* C2: a password returned by generateSinglePassword, on the shuffle path or
\* on the general path, has exactly length characters.
C2_ReturnedHasLength ==
  pc = "return" => Len(password) = settings.length

\* C3: with noDuplicate, the characters of every returned password are
\* pairwise distinct.
C3_NoDuplicateDistinct ==
  settings.noDuplicate =>
    \A p \in Returned : \A m, n \in 1..Len(p) : m # n => p[m] # p[n]

\* a duplicate-free password of the general path, drawn from custom symbols
\* that repeat a character, is in the list
C3_Witness ==
  /\ settings.noDuplicate
  /\ settings.includeSymbols
  /\ settings.customSymbols = << "!", "!" >>
  /\ \E n \in 1..Len(passwordList) :
       /\ Len(passwordList[n]) >= 2
       /\ "!" \in SetOf(passwordList[n])

\* C4: with noSequential, the codes of two adjacent characters of a returned
\* password never differ by exactly 1.
C4_NoSequentialAdjacent ==
  settings.noSequential =>
    \A p \in Returned : \A n \in 1..(Len(p) - 1) :
      /\ charCodeAt(p[n + 1]) - charCodeAt(p[n]) # 1
      /\ charCodeAt(p[n]) - charCodeAt(p[n + 1]) # 1

\* a password with noSequential that holds both "@" and "A", which are
\* adjacent in code order and of different categories
C4_Witness ==
  /\ settings.noSequential
  /\ \E n \in 1..Len(passwordList) :
       {"@", "A"} \subseteq SetOf(passwordList[n])

\* C5: with noSimilar, no character of a returned password, the first
\* included, is one of i, I, l, 1, o, O, 0.
C5_NoSimilarCharacters ==
  settings.noSimilar =>
    \A p \in Returned : \A n \in 1..Len(p) :
      p[n] \notin {"i", "I", "l", "1", "o", "O", "0"}

\* a password generated with noSimilar from a charset and a first-character
\* pool that hold similar characters
C5_Witness ==
  /\ settings.noSimilar
  /\ SetOf(charset) \cap {"i", "I", "l", "1", "o", "O", "0"} # {}
  /\ SetOf(firstCharPool) \cap {"i", "I", "l", "1", "o", "O", "0"} # {}
  /\ Len(passwordList) >= 1

\* the number of characters of p that belong to the set syms
CountIn(p, syms) == Cardinality({ n \in 1..Len(p) : p[n] \in syms })

\* C6: with symbols enabled, a returned password holds at most
\* ceil(length * 0.1) characters of the active symbol set.
C6_SymbolQuota ==
  settings.includeSymbols =>
    \A p \in Returned :
      10 * CountIn(p, SetOf(symbolsSetOf(settings))) < settings.length + 10

\* a password of more than ten characters that holds two symbols, the first
\* character being one of them
C6_Witness ==
  /\ settings.includeSymbols
  /\ settings.length > 10
  /\ \E n \in 1..Len(passwordList) :
       /\ CountIn(passwordList[n], SetOf(symbolsSetOf(settings))) = 2
       /\ passwordList[n][1] \in SetOf(symbolsSetOf(settings))

\* C7: the first character of a returned password is in the first-character
\* pool: no digit with noStartNumber, no symbol with noStartSymbol.
C7_FirstCharFromPool ==
  \A p \in Returned :
    Len(p) >= 1 =>
      /\ p[1] \in SetOf(firstCharPool)
      /\ settings.noStartNumber =>
           p[1] \notin {"0", "1", "2", "3", "4", "5", "6", "7", "8", "9"}
      /\ settings.noStartSymbol => p[1] \notin SetOf(symbolsSetOf(settings))

\* with the four categories and both options, a password that starts with a
\* letter and also holds a digit or a symbol
C7_Witness ==
  /\ settings.includeNumbers /\ settings.includeLowercase
  /\ settings.includeUppercase /\ settings.includeSymbols
  /\ settings.noStartNumber /\ settings.noStartSymbol
  /\ \E n \in 1..Len(passwordList) :
       /\ passwordList[n][1] \in {"a", "A"}
       /\ SetOf(passwordList[n]) \ {"a", "A"} # {}

\* the alphabet of the enabled categories, after the similarity filtering
Alphabet(s) ==
  ( (IF s.includeNumbers THEN SetOf(numbersSet) ELSE {})
      \cup (IF s.includeLowercase THEN SetOf(lowercaseSet) ELSE {})
      \cup (IF s.includeUppercase THEN SetOf(uppercaseSet) ELSE {})
      \cup (IF s.includeSymbols THEN SetOf(symbolsSetOf(s)) ELSE {}) )
    \ (IF s.noSimilar THEN {"i", "I", "l", "1", "o", "O", "0"} ELSE {})

\* C8: every character of a returned password belongs to the alphabet of the
\* enabled categories, after the similarity filtering.
C8_CharsFromAlphabet ==
  \A p \in Returned : SetOf(p) \subseteq Alphabet(settings)

\* a password generated with a category disabled and with noSimilar
C8_Witness ==
  /\ settings.includeUppercase
  /\ ~settings.includeLowercase
  /\ settings.includeNumbers
  /\ settings.noSimilar
  /\ \E n \in 1..Len(passwordList) : Len(passwordList[n]) >= 2

\* C9: with noDuplicate, a charset and a first-character pool that the
\* similarity filtering leaves non-empty, and a length above the size of the
\* filtered charset, the batch ends with the error that reports the
\* available size (of the charset, filtered or not) and the required length,
\* and no password is produced.
C9_NotEnoughUniqueReported ==
  ( /\ pc = "done"
    /\ settings.noDuplicate
    /\ Len(FilteredCharset(settings)) > 0
    /\ Len(FilteredFirstCharPool(settings)) > 0
    /\ settings.length > Len(FilteredCharset(settings)) ) =>
      /\ tooltip \in { ErrNotEnough(Len(FilteredCharset(settings)),
                                    settings.length),
                       ErrNotEnough(Len(charsetOf(settings)),
                                    settings.length) }
      /\ passwordList = << >>

FirstFailingCheck(s) ==
  IF Len(charsetOf(s)) = 0 THEN "Select at least one character type."
  ELSE IF Len(firstCharPoolOf(s)) = 0
    THEN "No valid starting characters available."
  ELSE IF s.noDuplicate /\ s.length > Len(charsetOf(s))
    THEN "Not enough unique characters"
  ELSE "none"

\* C11: the error reported by the validation is that of the first failing
\* check in the order charset non-empty, first-character pool non-empty,
\* noDuplicate implies length <= |charset|; generation starts only when none
\* fails.
C11_FirstFailingCheckReported ==
  pc # "ready" =>
    IF FirstFailingCheck(settings) = "none"
      THEN pc = "done" => tooltip.msg # "Not enough unique characters"
                            /\ tooltip # ErrNoStart
                            /\ tooltip # ErrEmptyCharset
      ELSE /\ pc = "done"
           /\ tooltip.msg = FirstFailingCheck(settings)
           /\ tooltip.msg = "Not enough unique characters" =>
                tooltip = ErrNotEnough(Len(charsetOf(settings)),
                                       settings.length)

\* the first-character pool is empty and noDuplicate asks for more characters
\* than the charset holds: the empty-pool error is the one reported
C11_Witness ==
  /\ pc = "done"
  /\ Len(charsetOf(settings)) > 0
  /\ Len(firstCharPoolOf(settings)) = 0
  /\ settings.noDuplicate
  /\ settings.length > Len(charsetOf(settings))
  /\ tooltip = ErrNoStart

\* the three feasibility checks pass on the character sets left by the
\* similarity filtering
FeasibleFiltered(s) ==
  /\ Len(FilteredCharset(s)) > 0
  /\ Len(FilteredFirstCharPool(s)) > 0
  /\ s.noDuplicate => s.length <= Len(FilteredCharset(s))

\* C12: secureRandom is called only after the three validation checks have
\* passed, and the checks are those of the character sets after the
\* similarity filtering.
C12_ValidationGatesSampling ==
  srMax # 0 => Feasible(settings) /\ FeasibleFiltered(settings)

\* C13: on the shuffle path the characters left after the removal of the
\* first character are at least length - 1, and the password returned is the
\* first character followed by exactly length - 1 distinct characters of them.
C13_ShuffleCannotFail ==
  /\ pc = "shuffle" => Len(chars) >= settings.length - 1
  /\ (pc = "return" /\ firstChar # Null) =>
       /\ Len(password) = settings.length
       /\ password[1] = firstChar
       /\ \A m, n \in 2..Len(password) :
            /\ password[m] \in SetOf(chars)
            /\ m # n => password[m] # password[n]

\* C14: every value returned by secureRandom(max) is an integer r with
\* 0 <= r < max, a valid index of a pool of size max.
C14_SecureRandomInRange ==
  srMax # 0 => srMax > 0 /\ srResult >= 0 /\ srResult < srMax

\* the last index of a pool of several characters is drawn
C14_Witness ==
  /\ srMax >= 3
  /\ srResult = srMax - 1
  /\ pc = "select"
  /\ pos = 1
  /\ passwordArray[1] = At(gsFirstCharPool, srResult)

\* C15: with noSimilar, the charset and the first-character pool of
\* generateSinglePassword hold no similar character when a character is
\* drawn; if the filtering empties one of them the call fails with the error
\* of that set and no character is drawn.
C15_SimilarFilteredBeforeDraw ==
  (settings.noSimilar /\ Feasible(settings)) =>
    /\ pc \in {"select", "nodup", "shuffle", "return"} =>
         /\ gsCharset = FilteredCharset(settings)
         /\ gsFirstCharPool = FilteredFirstCharPool(settings)
         /\ gsCharset # << >>
         /\ gsFirstCharPool # << >>
    /\ FilteredCharset(settings) = << >> =>
         /\ srMax = 0
         /\ passwordList = << >>
         /\ pc = "done" => tooltip = ErrSimilarCharset
    /\ (FilteredCharset(settings) # << >>
          /\ FilteredFirstCharPool(settings) = << >>) =>
         /\ srMax = 0
         /\ passwordList = << >>
         /\ pc = "done" => tooltip = ErrSimilarStart

\* the filtering emptied the first-character pool and left characters in the
\* charset: the call failed with the error of the pool
C15_Witness ==
  /\ settings.noSimilar
  /\ pc = "done"
  /\ FilteredCharset(settings) # << >>
  /\ firstCharPool # << >>
  /\ tooltip = ErrSimilarStart

\* the characters of the alphabet of the position pos that pass the validity
\* predicate in the current state
ValidNow ==
  { c \in SetOf(poolAt(pos)) :
      isValidChar(c, prevCharAt(pos), usedChars, symbolsSet2, symbolCount,
                  maxSymbols, settings.noSequential) }

\* C16: getValidChar fails, with the error of the position, only when no
\* character of the alphabet is valid, and then it never returns a character;
\* when a valid character exists it does not fail, and the character it
\* returns, from the quick attempts or from the scan, is a valid character of
\* the alphabet.
C16_FailsIffNoneValid ==
  [][ pc = "select" =>
        /\ pc' = "done" =>
             /\ ValidNow = {}
             /\ tooltip' = IF pos = 0 THEN ErrStartChar
                                      ELSE ErrPosition(pos + 1)
        /\ ValidNow = {} =>
             \/ pc' = "done"
             \/ pc' = "select" /\ pos' = pos /\ attempts' = attempts + 1
        /\ pc' # "done" =>
             \/ /\ pos' = pos + 1
                /\ passwordArray'[pos + 1] \in ValidNow
             \/ /\ pos' = pos
                /\ attempts' = attempts + 1
                /\ attempts < 5
                /\ At(poolAt(pos), srResult') \notin ValidNow ]_vars

\* the symbol quota left no valid character for the last position
C16_Witness ==
  /\ pc = "done"
  /\ settings.includeSymbols
  /\ settings.length >= 2
  /\ tooltip = ErrPosition(settings.length)

\* C17: on the general path a step fills the next position or none, leaves
\* the characters accepted earlier as they are, keeps exactly the positions
\* below pos filled, and ends the password with an error, without a password
\* returned, when it fills none and stops.
C17_LeftToRightNoBacktracking ==
  [][ pc = "select" =>
        /\ pc' \in {"select", "return", "done"}
        /\ pc' # "done" =>
             /\ pos' \in {pos, pos + 1}
             /\ \A n \in 1..pos : passwordArray'[n] = passwordArray[n]
             /\ \A n \in 1..settings.length :
                  passwordArray'[n] # Undefined <=> n <= pos'
        /\ pc' = "return" =>
             /\ pos' = settings.length
             /\ \A n \in 1..settings.length : password'[n] = passwordArray'[n]
        /\ pc' = "done" =>
             /\ tooltip' # NoError
             /\ password' = << >>
             /\ passwordList' = passwordList ]_vars

\* the third position had no valid character after two characters were
\* accepted: the password was abandoned
C17_Witness ==
  /\ pc = "done"
  /\ ~settings.includeSymbols
  /\ tooltip = ErrPosition(3)

\* the string p meets every constraint of the settings s on the characters
\* of a password: alphabet, first character, duplicates, sequences, symbols
MeetsConstraints(p, s) ==
  /\ SetOf(p) \subseteq SetOf(FilteredCharset(s))
  /\ Len(p) >= 1 => p[1] \in SetOf(FilteredFirstCharPool(s))
  /\ s.noDuplicate => \A m, n \in 1..Len(p) : m # n => p[m] # p[n]
  /\ s.noSequential =>
       \A n \in 1..(Len(p) - 1) :
         /\ charCodeAt(p[n + 1]) - charCodeAt(p[n]) # 1
         /\ charCodeAt(p[n]) - charCodeAt(p[n + 1]) # 1
  /\ s.includeSymbols =>
       10 * CountIn(p, SetOf(symbolsSetOf(s))) < s.length + 10

\* the string p can be extended to a password of s.length characters that
\* meets the constraints
RECURSIVE CanComplete(_, _)
CanComplete(p, s) ==
  IF Len(p) >= s.length THEN MeetsConstraints(p, s) /\ Len(p) = s.length
  ELSE \E c \in SetOf(FilteredCharset(s)) :
         /\ MeetsConstraints(Append(p, c), s)
         /\ CanComplete(Append(p, c), s)

\* C18: an exhaustion is the dead end of the characters accepted so far, not
\* of the settings: it happens after at least one accepted character, on a
\* prefix that meets the constraints and that no choice of later characters
\* completes; it is reached (C18_Witness) under settings for which a password
\* that meets the constraints exists.
C18_ExhaustionIsDeadEndOfPrefix ==
  [][ (pc = "select" /\ pc' = "done") =>
        /\ pos >= 1
        /\ MeetsConstraints(SubSeq(passwordArray, 1, pos), settings)
        /\ ~CanComplete(SubSeq(passwordArray, 1, pos), settings) ]_vars

\* digits only, noDuplicate and noSequential: generation failed with the
\* character-exhaustion error although a password meets the constraints
C18_Witness ==
  /\ pc = "done"
  /\ tooltip.msg = "Failed to generate character at position"
  /\ settings.includeNumbers /\ ~settings.includeLowercase
  /\ ~settings.includeUppercase /\ ~settings.includeSymbols
  /\ settings.noDuplicate /\ settings.noSequential
  /\ CanComplete(<< >>, settings)

\* C19: selecting one character makes at most 5 fast-path draws, the scan
\* that follows them settles the position (a character is accepted or the
\* call fails), and every call ends, with amount passwords or with an error,
\* whatever the random draws are.
C19_GenerationTerminates ==
  /\ [](attempts <= attemptsLimit)
  /\ [][ (pc = "select" /\ attempts >= attemptsLimit) =>
           (pos' = pos + 1 \/ pc' = "done") ]_vars
  /\ <>(pc = "done"
        /\ (Len(passwordList) = settings.amount \/ tooltip # NoError))

\* the fast path has used its 5 draws and the scan is about to run
C19_Witness ==
  /\ pc = "select"
  /\ attempts = attemptsLimit
  /\ srMax # 0

\* C20: generateSinglePassword hands over to the shuffle generator exactly
\* when noDuplicate is set, noSequential is not and the symbol set is empty,
\* which is when symbols are disabled; in every other case it starts the
\* per-position loop.
C20_ShuffleDelegation ==
  [][ (pc = "loop" /\ pc' \in {"nodup", "select"}) =>
        /\ pc' = "nodup" <=>
             (settings.noDuplicate /\ ~settings.noSequential
                /\ symbolsSet = << >>)
        /\ symbolsSet = << >> <=> ~settings.includeSymbols ]_vars

\* the shuffle generator was entered
C20_Witness ==
  /\ pc = "nodup"
  /\ settings.noDuplicate /\ ~settings.noSequential
  /\ ~settings.includeSymbols

\* the selector that always builds the valid subset and draws from it
SlowOnlySelect ==
  /\ pc = "select"
  /\ LET validChars == validCharsOf(poolAt(pos), prevCharAt(pos), usedChars,
                                    symbolsSet2, symbolCount, maxSymbols,
                                    settings.noSequential)
     IN  IF Len(validChars) = 0
           THEN Throw(IF pos = 0 THEN ErrStartChar ELSE ErrPosition(pos + 1))
           ELSE \E n \in 1..Len(validChars) : Accept(validChars[n])

\* a draw that was rejected: nothing but the count of attempts changes
RejectedDraw ==
  /\ attempts' = attempts + 1
  /\ UNCHANGED << pc, gpVars, gsCharset, gsFirstCharPool, maxSymbols,
                  symbolsSet2, passwordArray, usedChars, symbolCount, pos,
                  ndVars, password >>

\* C21: the selector with the quick attempts behaves as the selector that
\* always builds the valid subset: each of its steps is a step of that
\* selector or a rejected draw, every valid character can be the one it
\* returns, and when no character is valid it ends with the error.
C21_TwoPhaseEquivalent ==
  /\ [][ pc = "select" => (SlowOnlySelect \/ RejectedDraw) ]_vars
  /\ [](pc = "select" =>
          \A c \in ValidNow :
            ENABLED (Next /\ pos' = pos + 1 /\ passwordArray'[pos + 1] = c))
  /\ (pc = "select" /\ ValidNow = {}) ~> (pc = "done" /\ tooltip # NoError)

\* the quick attempts have rejected a draw while a valid character exists
C21_Witness ==
  /\ pc = "select"
  /\ attempts >= 1
  /\ attempts < attemptsLimit
  /\ ValidNow # {}

\* the character c may start a password under the first-character options
MayStart(c) ==
  /\ ~(settings.noStartNumber /\ c \in DigitChars)
  /\ ~(settings.noStartSymbol /\ c \in SetOf(symbolsSet))

\* C22: the first-character pool is the charset with the digits removed if
\* noStartNumber and with every character of the active symbol set removed
\* if noStartSymbol, in the order of the charset and with nothing else
\* changed.
C22_FirstCharPoolFromCharset ==
  (pc # "ready" /\ charset # << >>) =>
    /\ firstCharPool = SelectSeq(charset, MayStart)
    /\ Len(firstCharPool) <= Len(charset)
    /\ \A c \in SetOf(charset) :
         CountIn(firstCharPool, {c}) = IF MayStart(c)
                                         THEN CountIn(charset, {c}) ELSE 0

\* digits and custom symbols were removed and a letter was left to start with
C22_Witness ==
  /\ pc = "loop"
  /\ settings.noStartNumber /\ settings.includeNumbers
  /\ settings.noStartSymbol /\ settings.includeSymbols
  /\ settings.customSymbols # << >>
  /\ Len(firstCharPool) >= 1
  /\ Len(firstCharPool) < Len(charset)

\* C23: an error ends the call: the step that reports it stops the batch
\* without adding a password, and no step, hence no generation, random draw
\* or retry, is taken once an error is shown.
C23_ErrorsAreTerminal ==
  [][ /\ tooltip = NoError
      /\ tooltip' # NoError =>
           /\ pc' = "done"
           /\ passwordList' = passwordList
           /\ srMax' = 0 ]_vars

\* the first password of a batch of two failed during generation and the
\* second was never started
C23_Witness ==
  /\ pc = "done"
  /\ tooltip.msg = "Failed to generate character at position"
  /\ settings.amount >= 2
  /\ i = 0
  /\ passwordList = << >>

\* C24: every password of a batch starts from the same state: the
\* character sets of the batch do not change once built, each call of
\* generateSinglePassword works on the same filtered charset and pool, and
\* at its first position the used characters are empty, no symbol is
\* counted and no character is stored, whatever passwords came before.
C24_PasswordsIndependent ==
  /\ [][ pc # "ready" =>
           /\ charset' = charset
           /\ firstCharPool' = firstCharPool
           /\ symbolsSet' = symbolsSet ]_vars
  /\ [](pc \in {"select", "nodup", "shuffle"} =>
          /\ gsCharset = FilteredCharset(settings)
          /\ gsFirstCharPool = FilteredFirstCharPool(settings))
  /\ []((pc = "select" /\ pos = 0) =>
          /\ symbolCount = 0
          /\ usedChars = IF settings.noDuplicate THEN NewSet({}) ELSE NullSet
          /\ \A n \in 1..settings.length : passwordArray[n] = Undefined)

\* the second password of a batch starts after a first one that holds a
\* symbol
C24_Witness ==
  /\ pc = "select"
  /\ pos = 0
  /\ i >= 1
  /\ settings.includeSymbols
  /\ CountIn(passwordList[1], SetOf(symbolsSet)) >= 1

\* C25: on the general path the first position always gets a character:
\* every character of the first-character pool, which is not empty, is valid
\* there (nothing is used, there is no previous character, the symbol quota
\* is at least 1), and the error of the starting character is never shown.
C25_FirstPositionNeverFails ==
  /\ tooltip # ErrStartChar
  /\ (pc = "select" /\ pos = 0) =>
       /\ settings.length >= 1
       /\ maxSymbols >= 1
       /\ gsFirstCharPool # << >>
       /\ ValidNow = SetOf(gsFirstCharPool)

\* under noDuplicate and noSequential a symbol was accepted as the first
\* character
C25_Witness ==
  /\ pc = "select"
  /\ pos = 1
  /\ settings.noDuplicate /\ settings.noSequential
  /\ settings.includeSymbols
  /\ passwordArray[1] \in SetOf(symbolsSet)

\* only the symbols category is enabled
SymbolsOnly(s) ==
  /\ s.includeSymbols
  /\ ~s.includeNumbers /\ ~s.includeLowercase /\ ~s.includeUppercase

\* C26 as stated: with only symbols enabled and length >= 2 (and neither
\* noStartSymbol nor noSimilar), validation passes and the run ends with the
\* character-exhaustion error and no password.
C26_SymbolsOnlyAlwaysExhausts ==
  (/\ pc = "done"
   /\ SymbolsOnly(settings)
   /\ settings.length >= 2
   /\ ~settings.noStartSymbol /\ ~settings.noSimilar) =>
    /\ Feasible(settings)
    /\ tooltip.msg = "Failed to generate character at position"
    /\ passwordList = << >>

\* C26 amended: with only symbols enabled and length >= 2 no password is
\* ever produced and the run ends with an error; the error is the
\* character exhaustion, at a position after at most ceil(length * 0.1)
\* symbols, when validation passes and the similarity filtering leaves
\* characters to draw from, and it is the error of the validation or of the
\* filtering otherwise.
C26_SymbolsOnlyNeverSucceeds ==
  (SymbolsOnly(settings) /\ settings.length >= 2) =>
    /\ passwordList = << >>
    /\ pc # "return"
    /\ pc = "done" =>
         /\ tooltip # NoError
         /\ (/\ Feasible(settings)
             /\ FilteredCharset(settings) # << >>
             /\ FilteredFirstCharPool(settings) # << >>) <=>
              /\ tooltip.msg = "Failed to generate character at position"
              /\ tooltip.a >= 2
              /\ tooltip.a <= CeilTenth(settings.length) + 1

\* with only symbols and no other option the second position had no valid
\* character left
C26_Witness ==
  /\ pc = "done"
  /\ SymbolsOnly(settings)
  /\ settings.length >= 2
  /\ ~settings.noDuplicate /\ ~settings.noSequential /\ ~settings.noSimilar
  /\ tooltip = ErrPosition(2)
  /\ passwordList = << >>

\* the settings of C27: the shuffle path, with fewer characters after the
\* similarity filtering than the length, which the unfiltered charset covers
ShortAfterFiltering(s) ==
  /\ s.noDuplicate /\ s.noSimilar /\ ~s.noSequential /\ ~s.includeSymbols
  /\ Len(FilteredCharset(s)) < s.length
  /\ s.length <= Len(charsetOf(s))
  /\ firstCharPoolOf(s) # << >>

C28_BookkeepingMatchesPrefix ==
  (pc = "select" \/ (pc = "return" /\ firstChar = Null)) =>
    LET prefix == SubSeq(passwordArray, 1, pos)
    IN  /\ symbolCount = CountIn(prefix, SetOf(symbolsSet))
        /\ settings.noDuplicate =>
             /\ ~usedChars.isNull
             /\ usedChars.items = SetOf(prefix)
             /\ Cardinality(usedChars.items) = pos
        /\ ~settings.noDuplicate => usedChars.isNull

\* two characters were accepted under noDuplicate, one of them a symbol
C28_Witness ==
  /\ pc = "select"
  /\ pos = 2
  /\ settings.noDuplicate
  /\ settings.includeSymbols
  /\ symbolCount = 1
  /\ Cardinality(usedChars.items) = 2

\* a category other than id is included
OtherCategoryThan(id) == \E c \in CategoryIds \ {id} : form.checked[c]

\* C29: after updateAllOptions has run, whatever the checkboxes were before,
\* noStartNumber is checked only if numbers and another category are
\* included, noStartSymbol is checked only if symbols and another category
\* are included, and noSimilar is unchecked and disabled when numbers is the
\* only category included.
C29_OptionsConsistentAfterUpdate ==
  lastHandler = "updateAllOptions" =>
    /\ form.checked["no-start-number"] =>
         /\ form.checked["include-numbers"]
         /\ OtherCategoryThan("include-numbers")
    /\ form.checked["no-start-symbol"] =>
         /\ form.checked["include-symbols"]
         /\ OtherCategoryThan("include-symbols")
    /\ (/\ form.checked["include-numbers"]
        /\ ~OtherCategoryThan("include-numbers")) =>
         /\ ~form.checked["no-similar"]
         /\ form.disabled["no-similar"]

\* updateAllOptions ran with numbers as the only category: the options that
\* depend on another category are unchecked and disabled
C29_Witness ==
  /\ lastHandler = "updateAllOptions"
  /\ form.checked["include-numbers"]
  /\ ~OtherCategoryThan("include-numbers")
  /\ form.disabled["no-start-number"]
  /\ form.disabled["no-similar"]
  /\ ~form.checked["no-start-number"]

\* C30: an icon has at most one clipboard write in flight; while its
\* copying flag is set no step starts a write for it; the flag is cleared
\* only by the timer set after the promise settled, and it is cleared
\* eventually once the promise has settled, fulfilled or rejected; a click
\* on an icon without the flag starts a write.
C30_OneCopyPerIcon ==
  /\ [](\A e \in Icons : icons[e].writes <= 1)
  /\ [][ \A e \in Icons :
           /\ icons[e].copying => icons'[e].writes <= icons[e].writes
           /\ (icons[e].copying /\ ~icons'[e].copying) =>
                (icons[e].timer /\ icons[e].promise = "none") ]_vars
  /\ \A e \in Icons :
       (icons[e].promise \in {"fulfilled", "rejected"})
         ~> ~icons[e].copying
  /\ [](\A e \in Icons :
          ~icons[e].copying =>
            ENABLED (HandleCopyClick(e) /\ icons'[e].promise = "pending"))

\* a click on an icon was ignored while its write had settled and the timer
\* had not yet cleared the flag
C30_Witness ==
  \E e \in Icons :
    /\ icons[e].copying
    /\ icons[e].timer
    /\ icons[e].promise = "none"
    /\ copyEvent = << "ignored", e >>
    /\ clipboard = e

=============================================================================
